---------------------------- MODULE Spec2Model ----------------------------
(***************************************************************************)
(* Keyset (cursor) pagination over multi-field orderings:                  *)
(* MultiFieldCursorMixin of drf_multifield_cursor/pagination.py.           *)
(*                                                                         *)
(* A text (Python str or bytes) is a sequence of one-character strings; a  *)
(* value that may be None is a sequence of length at most one.             *)
(***************************************************************************)
EXTENDS Integers, Sequences, FiniteSets, TLC

None == <<>>
Some(x) == <<x>>

Ok(v) == [ok |-> TRUE, val |-> v]
Raise(v) == [ok |-> FALSE, val |-> v]

Min(a, b) == IF a <= b THEN a ELSE b

(***************************************************************************)
(* Characters, str() and int().                                            *)
(***************************************************************************)
Ascii ==
    << "\\x00", "\\x01", "\\x02", "\\x03", "\\x04", "\\x05", "\\x06", "\\x07",
       "\\x08", "\\x09", "\\x0a", "\\x0b", "\\x0c", "\\x0d", "\\x0e", "\\x0f",
       "\\x10", "\\x11", "\\x12", "\\x13", "\\x14", "\\x15", "\\x16", "\\x17",
       "\\x18", "\\x19", "\\x1a", "\\x1b", "\\x1c", "\\x1d", "\\x1e", "\\x1f",
       " ", "!", "\"", "#", "$", "%", "&", "'",
       "(", ")", "*", "+", ",", "-", ".", "/",
       "0", "1", "2", "3", "4", "5", "6", "7",
       "8", "9", ":", ";", "<", "=", ">", "?",
       "@", "A", "B", "C", "D", "E", "F", "G",
       "H", "I", "J", "K", "L", "M", "N", "O",
       "P", "Q", "R", "S", "T", "U", "V", "W",
       "X", "Y", "Z", "[", "\\", "]", "^", "_",
       "\\x60", "a", "b", "c", "d", "e", "f", "g",
       "h", "i", "j", "k", "l", "m", "n", "o",
       "p", "q", "r", "s", "t", "u", "v", "w",
       "x", "y", "z", "{", "|", "}", "~", "\\x7f" >>

Ord == [c \in {Ascii[i] : i \in 1..128} |-> (CHOOSE i \in 1..128 : Ascii[i] = c) - 1]
Chr(b) == Ascii[b + 1]

DigitChars == <<"0", "1", "2", "3", "4", "5", "6", "7", "8", "9">>
IsDigit(c) == \E d \in 1..10 : DigitChars[d] = c
DigitVal(c) == (CHOOSE d \in 1..10 : DigitChars[d] = c) - 1

RECURSIVE StrNat(_)
StrNat(n) ==
    IF n < 10 THEN <<DigitChars[n + 1]>>
    ELSE Append(StrNat(n \div 10), DigitChars[(n % 10) + 1])

\* str(attr) of an integer attribute
str(n) == IF n < 0 THEN <<"-">> \o StrNat(-n) ELSE StrNat(n)

RECURSIVE Strip(_)
Strip(t) ==
    IF t = <<>> THEN t
    ELSE IF t[1] = " " THEN Strip(Tail(t))
    ELSE IF t[Len(t)] = " " THEN Strip(SubSeq(t, 1, Len(t) - 1))
    ELSE t

RECURSIVE NatOf(_)
NatOf(ds) ==
    IF ds = <<>> THEN 0
    ELSE 10 * NatOf(SubSeq(ds, 1, Len(ds) - 1)) + DigitVal(ds[Len(ds)])

\* int(text): surrounding blanks, an optional sign, one or more decimal
\* digits; anything else raises ValueError.
int(t) ==
    LET s      == Strip(t)
        signed == s # <<>> /\ s[1] \in {"+", "-"}
        ds     == IF signed THEN Tail(s) ELSE s
    IN  IF ds # <<>> /\ \A i \in 1..Len(ds) : IsDigit(ds[i])
        THEN Ok((IF signed /\ s[1] = "-" THEN -1 ELSE 1) * NatOf(ds))
        ELSE Raise("ValueError")

\* cutoff = 0 stands for a falsy cutoff (None or 0)
_positive_int(integer_string, strict, cutoff) ==
    LET ret == int(integer_string)
    IN  IF ~ret.ok THEN ret
        ELSE IF ret.val < 0 \/ (ret.val = 0 /\ strict) THEN Raise("ValueError")
        ELSE IF cutoff # 0 THEN Ok(Min(ret.val, cutoff))
        ELSE Ok(ret.val)

(***************************************************************************)
(* json.dumps of a list of strings and json.loads of a position text.      *)
(***************************************************************************)
RECURSIVE JoinItems(_)
JoinItems(items) ==
    IF items = <<>> THEN <<>>
    ELSE <<"\"">> \o Head(items) \o <<"\"">>
         \o (IF Len(items) > 1 THEN <<",", " ">> ELSE <<>>)
         \o JoinItems(Tail(items))

\* json.dumps(fields): the items are str() of integers, so nothing is escaped
json_dumps(items) == <<"[">> \o JoinItems(items) \o <<"]">>

Find(s, c, from) ==
    IF \E j \in from..Len(s) : s[j] = c
    THEN CHOOSE j \in from..Len(s) : s[j] = c /\ \A k \in from..(j - 1) : s[k] # c
    ELSE 0

RECURSIVE SkipBlanks(_, _)
SkipBlanks(s, i) == IF i <= Len(s) /\ s[i] = " " THEN SkipBlanks(s, i + 1) ELSE i

NumberEnd(s, i) ==
    IF \E j \in i..Len(s) : ~IsDigit(s[j])
    THEN CHOOSE j \in i..Len(s) : ~IsDigit(s[j]) /\ \A k \in i..(j - 1) : IsDigit(s[k])
    ELSE Len(s) + 1

JsonError == [kind |-> "error", items |-> <<>>]

\* the elements of a JSON array from index i on: quoted strings without
\* escapes, or unsigned integers, separated by commas
RECURSIVE JsonElements(_, _, _)
JsonElements(s, i, acc) ==
    LET b == SkipBlanks(s, i)
    IN  IF b > Len(s) THEN JsonError
        ELSE LET quoted == s[b] = "\""
                 e      == IF quoted THEN Find(s, "\"", b + 1) ELSE NumberEnd(s, b)
                 bad    == IF quoted
                           THEN e = 0 \/ \E k \in (b + 1)..(e - 1) : s[k] = "\\"
                           ELSE e = b
                 item   == IF quoted THEN SubSeq(s, b + 1, e - 1) ELSE SubSeq(s, b, e - 1)
                 n      == SkipBlanks(s, IF quoted THEN e + 1 ELSE e)
             IN  IF bad THEN JsonError
                 ELSE IF n > Len(s) THEN [kind |-> "list", items |-> Append(acc, item)]
                 ELSE IF s[n] = "," THEN JsonElements(s, n + 1, Append(acc, item))
                 ELSE JsonError

\* json.loads(text): a list of strings or numbers, a string, a number, null;
\* any other text raises JSONDecodeError (kind "error")
json_loads(t) ==
    LET s == Strip(t)
        n == Len(s)
    IN  IF n = 0 THEN JsonError
        ELSE IF s[1] = "[" /\ n >= 2 /\ s[n] = "]"
        THEN IF SkipBlanks(s, 2) = n THEN [kind |-> "list", items |-> <<>>]
             ELSE JsonElements(SubSeq(s, 2, n - 1), 1, <<>>)
        ELSE IF s[1] = "\"" /\ n >= 2 /\ Find(s, "\"", 2) = n
                /\ \A k \in 2..(n - 1) : s[k] # "\\"
        THEN [kind |-> "str", items |-> <<SubSeq(s, 2, n - 1)>>]
        ELSE IF \A k \in 1..n : IsDigit(s[k])
        THEN [kind |-> "num", items |-> <<s>>]
        ELSE IF s = <<"n", "u", "l", "l">> THEN [kind |-> "null", items |-> <<>>]
        ELSE JsonError

(***************************************************************************)
(* The model of tests/models.py and the orderings over it.                 *)
(***************************************************************************)
ID == <<"i", "d">>
FIELD == <<"f", "i", "e", "l", "d">>
TIMESTAMP == <<"t", "i", "m", "e", "s", "t", "a", "m", "p">>
PK == <<"p", "k">>

\* ExamplePaginationModel: three integer columns, id the primary key
FieldNames == {ID, FIELD, TIMESTAMP}
pk_name == ID

\* getattr(instance, name) and the column a lookup name resolves to
Attr(row, name) == IF name = PK THEN row[pk_name] ELSE row[name]

StartsWithDash(x) == x # <<>> /\ x[1] = "-"

RECURSIVE LStripDash(_)
LStripDash(x) == IF StartsWithDash(x) THEN LStripDash(Tail(x)) ELSE x

invert(x) == IF StartsWithDash(x) THEN Tail(x) ELSE <<"-">> \o x

\* a reversal that leaves every specifier as it is
_reverse_ordering_kept(ordering_tuple) == ordering_tuple

_reverse_ordering(ordering_tuple) ==
    [i \in 1..Len(ordering_tuple) |-> invert(ordering_tuple[i])]

RECURSIVE Contains(_, _)
Contains(t, sub) ==
    IF Len(t) < Len(sub) THEN FALSE
    ELSE SubSeq(t, 1, Len(sub)) = sub \/ Contains(Tail(t), sub)

Elements(seq) == {seq[i] : i \in 1..Len(seq)}

\* a resolution that looks for the key under its ascending name alone
get_ordering_ascending_key_only(declared) ==
    IF declared.kind = "None" THEN Raise("AssertionError")
    ELSE IF declared.kind = "str" /\ Contains(declared.value, <<"_", "_">>)
    THEN Raise("AssertionError")
    ELSE IF declared.kind # "str" /\ <<"_", "_">> \in Elements(declared.value)
    THEN Raise("AssertionError")
    ELSE IF declared.kind \notin {"str", "list", "tuple"} THEN Raise("AssertionError")
    ELSE LET ordering == IF declared.kind = "str" THEN <<declared.value>>
                         ELSE declared.value
         IN  IF pk_name \notin Elements(ordering)
             THEN Ok(ordering \o <<pk_name>>)
             ELSE Ok(ordering)

\* get_ordering without a filter backend: the pagination class's `ordering`
\* attribute is [kind |-> "None" | "str" | "list" | "tuple", value |-> ...]
get_ordering(declared) ==
    IF declared.kind = "None" THEN Raise("AssertionError")
    ELSE IF declared.kind = "str" /\ Contains(declared.value, <<"_", "_">>)
    THEN Raise("AssertionError")
    ELSE IF declared.kind # "str" /\ <<"_", "_">> \in Elements(declared.value)
    THEN Raise("AssertionError")
    ELSE IF declared.kind \notin {"str", "list", "tuple"} THEN Raise("AssertionError")
    ELSE LET ordering == IF declared.kind = "str" THEN <<declared.value>>
                         ELSE declared.value
         IN  IF {<<"-">> \o pk_name, pk_name, PK, <<"-">> \o PK} \cap Elements(ordering) = {}
             THEN Ok(ordering \o <<pk_name>>)
             ELSE Ok(ordering)

_all_ascending(ordering) == ~\E i \in 1..Len(ordering) : StartsWithDash(ordering[i])
_all_descending(ordering) == \A i \in 1..Len(ordering) : StartsWithDash(ordering[i])
_uniform_ordering(ordering) == _all_ascending(ordering) \/ _all_descending(ordering)

\* the switch without the uniform-direction test
should_use_tuple_comparison_unchecked(use_tuple, ordering) == use_tuple

should_use_tuple_comparison(use_tuple, ordering) ==
    IF ~use_tuple THEN FALSE
    ELSE IF ~_uniform_ordering(ordering) THEN FALSE
    ELSE TRUE

\* the position of a single-field cursor: the first ordering field alone
_get_position_from_instance_first_field(instance, ordering) ==
    json_dumps(<<str(Attr(instance, LStripDash(ordering[1])))>>)

_get_position_from_instance(instance, ordering) ==
    json_dumps([i \in 1..Len(ordering) |-> str(Attr(instance, LStripDash(ordering[i])))])

(***************************************************************************)
(* The ordered query: order_by, filter and slicing of a table (a set of    *)
(* rows with distinct primary keys).                                       *)
(***************************************************************************)
\* the column order_by sorts on: Django drops one leading "-"
OrderName(x) == IF StartsWithDash(x) THEN Tail(x) ELSE x

\* order_by raises FieldError for a name that is no column of the model
ValidOrdering(ordering) ==
    \A i \in 1..Len(ordering) : OrderName(ordering[i]) \in FieldNames \cup {PK}

\* a sorts before b under ORDER BY ordering
RECURSIVE Precedes(_, _, _)
Precedes(a, b, ordering) ==
    IF ordering = <<>> THEN FALSE
    ELSE LET f == OrderName(Head(ordering))
         IN  IF Attr(a, f) = Attr(b, f) THEN Precedes(a, b, Tail(ordering))
             ELSE IF StartsWithDash(Head(ordering)) THEN Attr(a, f) > Attr(b, f)
             ELSE Attr(a, f) < Attr(b, f)

RECURSIVE order_by(_, _)
order_by(rows, ordering) ==
    IF rows = {} THEN <<>>
    ELSE LET first == CHOOSE r \in rows : \A x \in rows \ {r} : Precedes(r, x, ordering)
         IN  <<first>> \o order_by(rows \ {first}, ordering)

\* queryset[start : stop]
Slice(seq, start, stop) == SubSeq(seq, start + 1, Min(stop, Len(seq)))

\* a lookup Q(attr=v), Q(attr__lt=v), Q(attr__gt=v) evaluated on a row; the
\* integer column prepares the position string with int()
Q(attr, op, v) == [attr |-> attr, op |-> op, value |-> v]

QHolds(q, row) ==
    LET v == int(q.value).val
    IN  CASE q.op = "exact" -> Attr(row, q.attr) = v
          [] q.op = "lt"    -> Attr(row, q.attr) < v
          [] q.op = "gt"    -> Attr(row, q.attr) > v

\* zip(a, b) stops at the shorter argument
ZipLen(a, b) == Min(Len(a), Len(b))

\* the last assignment to a dictionary key wins
LastIndex(order, ordering, n) ==
    CHOOSE k \in 1..n : ordering[k] = order /\ \A j \in (k + 1)..n : ordering[j] # order

q_objects_equals(ordering, position_list) ==
    LET n == ZipLen(ordering, position_list)
    IN  [order \in {ordering[k] : k \in 1..n} |->
            Q(LStripDash(order), "exact", position_list[LastIndex(order, ordering, n)])]

\* the comparisons with "lt" and "gt" exchanged
q_objects_compare_swapped(ordering, position_list, reverse) ==
    LET n == ZipLen(ordering, position_list)
    IN  [order \in {ordering[k] : k \in 1..n} |->
            LET is_reversed == StartsWithDash(order)
                position    == position_list[LastIndex(order, ordering, n)]
            IN  IF reverse # is_reversed
                THEN Q(LStripDash(order), "gt", position)
                ELSE Q(LStripDash(order), "lt", position)]

\* the comparisons of a forward traversal, whatever the cursor says
q_objects_compare_forward(ordering, position_list, reverse) ==
    LET n == ZipLen(ordering, position_list)
    IN  [order \in {ordering[k] : k \in 1..n} |->
            LET is_reversed == StartsWithDash(order)
                position    == position_list[LastIndex(order, ordering, n)]
            IN  IF is_reversed
                THEN Q(LStripDash(order), "lt", position)
                ELSE Q(LStripDash(order), "gt", position)]

q_objects_compare(ordering, position_list, reverse) ==
    LET n == ZipLen(ordering, position_list)
    IN  [order \in {ordering[k] : k \in 1..n} |->
            LET is_reversed == StartsWithDash(order)
                position    == position_list[LastIndex(order, ordering, n)]
            IN  IF reverse # is_reversed
                THEN Q(LStripDash(order), "lt", position)
                ELSE Q(LStripDash(order), "gt", position)]

\* the sub-filters without their equality prefixes
filter_list_compare_only(ordering, position_list, reverse) ==
    LET compare_q == q_objects_compare(ordering, position_list, reverse)
        n         == Len(ordering)
    IN  IF \E k \in 1..n : ordering[k] \notin DOMAIN compare_q
        THEN Raise("KeyError")
        ELSE Ok([i \in 1..n |-> <<compare_q[ordering[i]]>>])

\* filter_list of the disjunctive branch: a sequence of conjunctions, or
\* KeyError when a dictionary lacks an ordering field
filter_list(ordering, position_list, reverse) ==
    LET equals_q  == q_objects_equals(ordering, position_list)
        compare_q == q_objects_compare(ordering, position_list, reverse)
        n         == Len(ordering)
        sub(i)    == \* i-th pass of the loop, i = 0 .. n-1
            LET equals == SubSeq(ordering, 1, Min(i + 2, n))
                last   == equals[Len(equals)]
                rest   == SubSeq(equals, 1, Len(equals) - 1)
            IN  [k \in 1..Len(equals) |->
                    IF k < Len(equals) THEN equals_q[rest[k]] ELSE compare_q[last]]
    IN  IF \E k \in 1..n : ordering[k] \notin DOMAIN compare_q
        THEN Raise("KeyError")
        ELSE Ok(<< <<compare_q[ordering[1]]>> >> \o [i \in 1..n |-> sub(i - 1)])

\* reduce(operator.or_, ...) over reduce(operator.and_, ...)
QObjectHolds(filters, row) ==
    \E i \in 1..Len(filters) : \A k \in 1..Len(filters[i]) : QHolds(filters[i][k], row)

\* a row-value comparison that admits the equal row
RECURSIVE RowValueGe(_, _)
RowValueGe(lhs, rhs) ==
    IF lhs = <<>> THEN TRUE
    ELSE Head(lhs) > Head(rhs) \/ (Head(lhs) = Head(rhs) /\ RowValueGe(Tail(lhs), Tail(rhs)))

\* row-value comparison (f1, .., fn) > (v1, .., vn) of the database
RECURSIVE RowValueGt(_, _)
RowValueGt(lhs, rhs) ==
    IF lhs = <<>> THEN FALSE
    ELSE Head(lhs) > Head(rhs) \/ (Head(lhs) = Head(rhs) /\ RowValueGt(Tail(lhs), Tail(rhs)))

RECURSIVE RowValueLt(_, _)
RowValueLt(lhs, rhs) ==
    IF lhs = <<>> THEN FALSE
    ELSE Head(lhs) < Head(rhs) \/ (Head(lhs) = Head(rhs) /\ RowValueLt(Tail(lhs), Tail(rhs)))

IsIntegerText(t) == int(t).ok

\* the rows of `rows` beyond the cursor position, or the exception raised
BoundaryFilter(rows, ordering, use_tuple, reverse, current_position) ==
    LET \* lines 96-124: the tuple comparison
        tuple_filter(field_names, rhs, should_use_gt) ==
            IF should_use_gt
            THEN Ok({row \in rows : RowValueGt(
                        [i \in 1..Len(field_names) |-> Attr(row, field_names[i])], rhs)})
            ELSE Ok({row \in rows : RowValueLt(
                        [i \in 1..Len(field_names) |-> Attr(row, field_names[i])], rhs)})
        \* lines 126-160: the disjunction of conjunctions
        q_filter(filters, all_integers) ==
            IF ~filters.ok THEN filters
            ELSE IF ~all_integers THEN Raise("ValueError")
            ELSE Ok({row \in rows : QObjectHolds(filters.val, row)})
        filter(current_position_list, n, all_integers) ==
            IF should_use_tuple_comparison(use_tuple, ordering)
            THEN IF n < Len(ordering) \/ ~all_integers THEN Raise("DatabaseError")
                 ELSE tuple_filter(
                        [i \in 1..Len(ordering) |-> LStripDash(ordering[i])],
                        [i \in 1..n |-> int(current_position_list[i]).val],
                        (_all_ascending(ordering) /\ ~reverse)
                            \/ (_all_descending(ordering) /\ reverse))
            ELSE q_filter(filter_list(ordering, current_position_list, reverse),
                          all_integers)
        with_list(current_position_list) ==
            filter(current_position_list, ZipLen(ordering, current_position_list),
                   \A i \in 1..ZipLen(ordering, current_position_list) :
                       IsIntegerText(current_position_list[i]))
        \* line 89: json.loads; a JSON string is iterated character by character
        with_loaded(loaded) ==
            IF loaded.kind = "error" THEN Raise("ValueError")
            ELSE IF loaded.kind \in {"num", "null"} THEN Raise("TypeError")
            ELSE with_list(IF loaded.kind = "str"
                           THEN [i \in 1..Len(loaded.items[1]) |-> <<loaded.items[1][i]>>]
                           ELSE loaded.items)
    IN  with_loaded(json_loads(current_position))

(***************************************************************************)
(* The cursor codec: urllib.parse.urlencode / parse_qs, base64 and the     *)
(* cursor query parameter of the URL.                                      *)
(***************************************************************************)
HexChars == <<"0", "1", "2", "3", "4", "5", "6", "7",
              "8", "9", "A", "B", "C", "D", "E", "F">>
LowerHex == <<"a", "b", "c", "d", "e", "f">>

IsHex(c) == (\E h \in 1..16 : HexChars[h] = c) \/ (\E h \in 1..6 : LowerHex[h] = c)
HexVal(c) ==
    IF \E h \in 1..16 : HexChars[h] = c
    THEN (CHOOSE h \in 1..16 : HexChars[h] = c) - 1
    ELSE (CHOOSE h \in 1..6 : LowerHex[h] = c) + 9

\* a character urllib never quotes: letters, digits and "_.-~"
IsUnreserved(c) ==
    \/ Ord[c] \in (48..57) \cup (65..90) \cup (97..122)
    \/ c \in {"_", ".", "-", "~"}

\* the character a decoded byte above 127 is replaced by
NonAscii == "\\ufffd"

\* the concatenation of a sequence of texts
RECURSIVE Flatten(_)
Flatten(ss) ==
    IF ss = <<>> THEN <<>>
    ELSE IF Len(ss) = 1 THEN ss[1]
    ELSE LET h == Len(ss) \div 2
         IN  Flatten(SubSeq(ss, 1, h)) \o Flatten(SubSeq(ss, h + 1, Len(ss)))

\* a quoting that escapes nothing but the blank
quote_plus_unescaped(t) == [i \in 1..Len(t) |-> IF t[i] = " " THEN "+" ELSE t[i]]

quote_plus(t) ==
    Flatten([i \in 1..Len(t) |->
        IF t[i] = " " THEN <<"+">>
        ELSE IF IsUnreserved(t[i]) THEN <<t[i]>>
        ELSE <<"%", HexChars[(Ord[t[i]] \div 16) + 1], HexChars[(Ord[t[i]] % 16) + 1]>>])

\* "+" is a blank and %XY the character of code XY; a "%" that no two hex
\* digits follow stands for itself
unquote_plus(t) ==
    LET escape(i) == i >= 1 /\ i + 2 <= Len(t) /\ t[i] = "%" /\ IsHex(t[i + 1]) /\ IsHex(t[i + 2])
    IN  Flatten([i \in 1..Len(t) |->
            IF escape(i - 1) \/ escape(i - 2) THEN <<>>
            ELSE IF escape(i)
            THEN LET b == 16 * HexVal(t[i + 1]) + HexVal(t[i + 2])
                 IN  <<IF b < 128 THEN Chr(b) ELSE NonAscii>>
            ELSE IF t[i] = "+" THEN <<" ">>
            ELSE <<t[i]>>])

\* urlencode(tokens, doseq=True) of a sequence of <<key, value>> texts
RECURSIVE urlencode(_)
urlencode(tokens) ==
    IF tokens = <<>> THEN <<>>
    ELSE quote_plus(Head(tokens)[1]) \o <<"=">> \o quote_plus(Head(tokens)[2])
         \o (IF Len(tokens) > 1 THEN <<"&">> ELSE <<>>)
         \o urlencode(Tail(tokens))

\* str.split(sep) and str.split(sep, 1)
RECURSIVE Split(_, _)
Split(t, sep) ==
    LET j == Find(t, sep, 1)
    IN  IF j = 0 THEN <<t>>
        ELSE <<SubSeq(t, 1, j - 1)>> \o Split(SubSeq(t, j + 1, Len(t)), sep)

SplitOnce(t, sep) ==
    LET j == Find(t, sep, 1)
    IN  IF j = 0 THEN <<t>> ELSE <<SubSeq(t, 1, j - 1), SubSeq(t, j + 1, Len(t))>>

\* parse_qs(querystring, keep_blank_values=True) as the sequence of
\* <<name, value>> pairs in order of appearance
RECURSIVE ParsePairs(_)
ParsePairs(pairs) ==
    IF pairs = <<>> THEN <<>>
    ELSE LET name_value == Head(pairs)
             nv == SplitOnce(name_value, "=")
         IN  (IF name_value = <<>> THEN <<>>
              ELSE << <<unquote_plus(nv[1]),
                        IF Len(nv) = 2 THEN unquote_plus(nv[2]) ELSE <<>> >> >>)
             \o ParsePairs(Tail(pairs))

parse_qs(querystring) == ParsePairs(Split(querystring, "&"))

\* tokens.get(key, [default])[0]
TokensGet(tokens, key, default) ==
    IF \E i \in 1..Len(tokens) : tokens[i][1] = key
    THEN tokens[CHOOSE i \in 1..Len(tokens) :
                    tokens[i][1] = key /\ \A j \in 1..(i - 1) : tokens[j][1] # key][2]
    ELSE default

B64Alphabet ==
    << "A", "B", "C", "D", "E", "F", "G", "H", "I", "J", "K", "L", "M", "N", "O", "P",
       "Q", "R", "S", "T", "U", "V", "W", "X", "Y", "Z", "a", "b", "c", "d", "e", "f",
       "g", "h", "i", "j", "k", "l", "m", "n", "o", "p", "q", "r", "s", "t", "u", "v",
       "w", "x", "y", "z", "0", "1", "2", "3", "4", "5", "6", "7", "8", "9", "+", "/" >>

B64Index == [c \in {B64Alphabet[i] : i \in 1..64} |-> (CHOOSE i \in 1..64 : B64Alphabet[i] = c) - 1]

\* b64encode of a sequence of byte values: three bytes make four characters,
\* the last group is padded with "="
B64EncodeBytes(bs) ==
    LET n == Len(bs)
        byte(j) == IF j <= n THEN bs[j] ELSE 0
    IN  [k \in 1..(4 * ((n + 2) \div 3)) |->
            LET q == (k - 1) \div 4
                r == (k - 1) % 4
                b1 == byte(3 * q + 1)
                b2 == byte(3 * q + 2)
                b3 == byte(3 * q + 3)
            IN  CASE r = 0 -> B64Alphabet[(b1 \div 4) + 1]
                  [] r = 1 -> B64Alphabet[((b1 % 4) * 16 + b2 \div 16) + 1]
                  [] r = 2 -> IF 3 * q + 2 > n THEN "="
                              ELSE B64Alphabet[((b2 % 16) * 4 + b3 \div 64) + 1]
                  [] r = 3 -> IF 3 * q + 3 > n THEN "="
                              ELSE B64Alphabet[(b3 % 64) + 1]]

\* text.encode("ascii")
EncodeAscii(t) ==
    IF \E i \in 1..Len(t) : t[i] = NonAscii THEN Raise("ValueError")
    ELSE Ok([i \in 1..Len(t) |-> Ord[t[i]]])

\* bytes.decode("ascii")
DecodeAscii(bs) ==
    IF \E i \in 1..Len(bs) : bs[i] > 127 THEN Raise("ValueError")
    ELSE Ok([i \in 1..Len(bs) |-> Chr(bs[i])])

b64encode(t) == B64EncodeBytes(EncodeAscii(t).val)

\* binascii.a2b_base64 without validation: characters outside the alphabet
\* are skipped; quad_pos counts the alphabet characters read, modulo 4; a "="
\* met with quad_pos >= 2 is a pad, and the pad that completes the quad ends
\* the data; data that ends inside a quad is an error
A2B(s) ==
    LET IsData(c) == \E i \in 1..64 : B64Alphabet[i] = c
        quad_pos(i) == Cardinality({j \in 1..(i - 1) : IsData(s[j])}) % 4
        pads(i) == Cardinality({j \in 1..i :
                        s[j] = "=" /\ \A k \in j..i : ~IsData(s[k])})
        quad_ends(q, p) == q >= 2 /\ q + p >= 4
        ends(i) == s[i] = "=" /\ quad_ends(quad_pos(i), pads(i))
        first(S) == IF S = {} THEN Len(s) + 1 ELSE CHOOSE i \in S : \A j \in S : i <= j
        bytes(data, index) ==
            [k \in 1..(3 * (Len(data) \div 4)
                       + (IF Len(data) % 4 = 0 THEN 0 ELSE (Len(data) % 4) - 1)) |->
                LET q == (k - 1) \div 3
                    r == (k - 1) % 3
                IN  CASE r = 0 -> index[data[4 * q + 1]] * 4 + index[data[4 * q + 2]] \div 16
                      [] r = 1 -> (index[data[4 * q + 2]] % 16) * 16
                                  + index[data[4 * q + 3]] \div 4
                      [] r = 2 -> (index[data[4 * q + 3]] % 4) * 64 + index[data[4 * q + 4]]]
        decoded(stop, data) ==
            IF stop > Len(s) /\ Len(data) % 4 # 0 THEN Raise("ValueError")
            ELSE Ok(bytes(data, B64Index))
        upto(stop) == decoded(stop, SelectSeq(SubSeq(s, 1, stop - 1), IsData))
    IN  upto(first({i \in 1..Len(s) : ends(i)}))

b64decode(s) == A2B(s)

(***************************************************************************)
(* Cursor = namedtuple("Cursor", ["offset", "reverse", "position"])        *)
(***************************************************************************)
Cursor(offset, reverse, position) ==
    [offset |-> offset, reverse |-> reverse, position |-> position]

\* CursorPagination.offset_cutoff of rest_framework
offset_cutoff == 1000

\* encode_cursor(cursor): the value of the cursor parameter as it stands in
\* the returned URL (replace_query_param quotes it)
encode_cursor(cursor) ==
    LET tokens ==
            (IF cursor.offset # 0 THEN << <<<<"o">>, str(cursor.offset)>> >> ELSE <<>>)
            \o (IF cursor.reverse THEN << <<<<"r">>, <<"1">>>> >> ELSE <<>>)
            \o (IF cursor.position # None THEN << <<<<"p">>, cursor.position[1]>> >> ELSE <<>>)
        querystring == urlencode(tokens)
        encoded == b64encode(querystring)
    IN  quote_plus(encoded)

\* decode_cursor(request): request is the raw cursor parameter of the URL,
\* None when the URL has none. Ok(None), Ok(Some(cursor)) or NotFound.
decode_cursor(request, cutoff) ==
    LET \* lines 270-280: the three fields, read from the parsed tokens
        fields(tokens, offset, reverse) ==
            IF ~offset.ok \/ ~reverse.ok THEN Raise("NotFound")
            ELSE Ok(Some(Cursor(offset.val, reverse.val # 0,
                                IF \E i \in 1..Len(tokens) : tokens[i][1] = <<"p">>
                                THEN Some(TokensGet(tokens, <<"p">>, <<>>))
                                ELSE None)))
        with_tokens(tokens) ==
            fields(tokens,
                   _positive_int(TokensGet(tokens, <<"o">>, <<"0">>), FALSE, cutoff),
                   int(TokensGet(tokens, <<"r">>, <<"0">>)))
        \* line 268
        with_querystring(querystring) ==
            IF ~querystring.ok THEN Raise("NotFound")
            ELSE with_tokens(parse_qs(querystring.val))
        \* line 267
        with_bytes(bytes) ==
            with_querystring(IF bytes.ok THEN DecodeAscii(bytes.val) ELSE bytes)
        with_ascii(encoded, ascii) ==
            with_bytes(IF ascii.ok THEN b64decode(encoded) ELSE ascii)
        with_encoded(encoded) == with_ascii(encoded, EncodeAscii(encoded))
    IN  IF request = None THEN Ok(None)
        ELSE with_encoded(unquote_plus(request[1]))

(***************************************************************************)
(* The paginator instance, the table it pages over and one request.        *)
(***************************************************************************)
VARIABLES
    data,                  \* the table: a set of rows with distinct primary keys
    use_tuple_comparison,  \* class attribute of the paginator
    page_size,             \* self.page_size
    ordering,              \* self.ordering, declared and then resolved
    cursor,                \* self.cursor
    page,                  \* self.page
    has_next,              \* self.has_next, Unset before the first page
    has_previous,          \* self.has_previous
    next_position,         \* self.next_position
    previous_position,     \* self.previous_position
    outcome,               \* what the last request returned or raised
    walk,                  \* where the client's walk over the pages stands
    seen,                  \* the rows of the pages returned to the walk, in order
    before,                \* the page the walk showed before its last step
    stable,                \* rows in the table since the walk began, never written
    writes,                \* number of concurrent writes so far
    token,                 \* codec: the encoded cursor parameter
    decoded,               \* codec: what decode_cursor made of it
    selected,              \* filter: the rows the boundary filter kept
    configured_cutoff,     \* self.offset_cutoff as the pagination class sets it
    resolution             \* what get_ordering returned for the declared ordering

vars == <<data, use_tuple_comparison, page_size, ordering, cursor, page, has_next,
          has_previous, next_position, previous_position, outcome, walk, seen,
          before, stable, writes, token, decoded, selected,
          configured_cutoff, resolution>>

instance == <<page_size, ordering, cursor, page, has_next, has_previous,
              next_position, previous_position, outcome>>
config == <<data, use_tuple_comparison>>
history == <<walk, seen, before, stable, writes>>
settings == <<configured_cutoff, resolution>>
scratch == <<token, decoded, selected, settings>>

\* an attribute that was never assigned
Unset == <<>>

\* the sequence left in scan order
Reversed_kept(seq) == seq

Reversed(seq) == [i \in 1..Len(seq) |-> seq[Len(seq) + 1 - i]]

Self ==
    [page_size |-> page_size, ordering |-> ordering, cursor |-> cursor, page |-> page,
     has_next |-> has_next, has_previous |-> has_previous,
     next_position |-> next_position, previous_position |-> previous_position,
     outcome |-> outcome]

\* a window of page_size rows, without the extra row
Results_exact(scan, offset, size) == Slice(scan, offset, offset + size)

\* results = list(queryset[offset : offset + page_size + 1])
Results(scan, offset, size) == Slice(scan, offset, offset + size + 1)

\* self.page = list(results[: self.page_size])
PageOf(results, size) == Slice(results, 0, size)

\* a test of the position alone
came_from_cursor_position_only(current_position, offset) == current_position # None

\* every request taken to come from a cursor
came_from_cursor_always(current_position, offset) == TRUE

\* (current_position is not None) or (offset > 0): the request came from a
\* cursor that leaves rows behind it
came_from_cursor(current_position, offset) == (current_position # None) \/ (offset > 0)

\* paginate_queryset(queryset, request): the instance after the call;
\* outcome is "page", "None" (no pagination) or the exception raised
paginate_queryset(self, queryset, use_tuple, request) ==
    LET \* lines 168-197: the following position and the navigation state
        navigate(s3, ord, offset, reverse, current_position, results, first_page) ==
            LET has_following_position == Len(results) > Len(first_page)
                following_position ==
                    IF has_following_position
                    THEN Some(_get_position_from_instance(results[Len(results)], ord))
                    ELSE None
                came_from == came_from_cursor(current_position, offset)
            IN  IF reverse
                THEN [s3 EXCEPT !.page = Reversed(first_page),
                                !.has_next = Some(came_from),
                                !.has_previous = Some(has_following_position),
                                !.next_position =
                                    IF came_from THEN Some(current_position) ELSE @,
                                !.previous_position =
                                    IF has_following_position
                                    THEN Some(following_position) ELSE @,
                                !.outcome = "page"]
                ELSE [s3 EXCEPT !.page = first_page,
                                !.has_next = Some(has_following_position),
                                !.has_previous = Some(came_from),
                                !.next_position =
                                    IF has_following_position
                                    THEN Some(following_position) ELSE @,
                                !.previous_position =
                                    IF came_from THEN Some(current_position) ELSE @,
                                !.outcome = "page"]
        \* lines 165-166: the window and the page
        window(s3, ord, offset, reverse, current_position, results) ==
            navigate(s3, ord, offset, reverse, current_position, results,
                     PageOf(results, self.page_size))
        \* lines 81-160: the scan in its order, behind the boundary filter
        scan(s3, ord, offset, reverse, current_position, scan_ordering, filtered) ==
            IF ~ValidOrdering(scan_ordering) THEN [s3 EXCEPT !.outcome = "FieldError"]
            ELSE IF ~filtered.ok THEN [s3 EXCEPT !.outcome = filtered.val]
            ELSE window(s3, ord, offset, reverse, current_position,
                        Results(order_by(filtered.val, scan_ordering), offset,
                                self.page_size))
        with_cursor(s3, ord, offset, reverse, current_position) ==
            scan(s3, ord, offset, reverse, current_position,
                 IF reverse THEN _reverse_ordering(ord) ELSE ord,
                 IF current_position # None
                 THEN BoundaryFilter(queryset, ord, use_tuple, reverse, current_position[1])
                 ELSE Ok(queryset))
        \* lines 75-79: the cursor of the request
        with_decoded(s2, ord, dec) ==
            IF ~dec.ok THEN [s2 EXCEPT !.outcome = dec.val]
            ELSE with_cursor([s2 EXCEPT !.cursor = dec.val], ord,
                             IF dec.val = None THEN 0 ELSE dec.val[1].offset,
                             IF dec.val = None THEN FALSE ELSE dec.val[1].reverse,
                             IF dec.val = None THEN None ELSE dec.val[1].position)
        \* line 73: the resolved ordering
        with_ordering(resolved) ==
            IF ~resolved.ok THEN [self EXCEPT !.outcome = resolved.val]
            ELSE with_decoded([self EXCEPT !.ordering =
                                   [kind |-> "tuple", value |-> resolved.val]],
                              resolved.val, decode_cursor(request, offset_cutoff))
    IN  IF self.page_size = 0 THEN [self EXCEPT !.outcome = "None"]
        ELSE with_ordering(get_ordering(self.ordering))

\* the link the response carries to the following page: the cursor of the
\* last row shown (of the first row, for the preceding page), None when the
\* page has no such neighbour
get_next_link(self) ==
    IF self.outcome # "page" \/ self.has_next # Some(TRUE) THEN None
    ELSE Some(encode_cursor(Cursor(0, FALSE,
            IF self.page = <<>> THEN self.next_position[1]
            ELSE Some(_get_position_from_instance(self.page[Len(self.page)],
                                                  self.ordering.value)))))

get_previous_link(self) ==
    IF self.outcome # "page" \/ self.has_previous # Some(TRUE) THEN None
    ELSE Some(encode_cursor(Cursor(0, TRUE,
            IF self.page = <<>> THEN self.previous_position[1]
            ELSE Some(_get_position_from_instance(self.page[1], self.ordering.value)))))

\* one request served by the paginator
Serve(request) ==
    \E s \in {paginate_queryset(Self, data, use_tuple_comparison, request)} :
        /\ page_size' = s.page_size
        /\ ordering' = s.ordering
        /\ cursor' = s.cursor
        /\ page' = s.page
        /\ has_next' = s.has_next
        /\ has_previous' = s.has_previous
        /\ next_position' = s.next_position
        /\ previous_position' = s.previous_position
        /\ outcome' = s.outcome

(***************************************************************************)
(* Tables, orderings and requests the model draws its inputs from.         *)
(***************************************************************************)
MaxRows == 5
MaxPageSize == 2
MaxOffset == 2

\* the values of the column `field`: ties, and a step from one digit to two
FieldValues == {9, 10}

Row(id, f) ==
    [n \in FieldNames |-> IF n = ID THEN id ELSE IF n = FIELD THEN f ELSE 10 - (id % 2)]

TableOf(fs) == {Row(i, fs[i]) : i \in 1..Len(fs)}

Tables == {TableOf(fs) : fs \in UNION {[1..n -> FieldValues] : n \in 0..MaxRows}}

Signed(names) == names \cup {<<"-">> \o n : n \in names}

\* tuples of one to three signed columns, no column twice
DistinctOrderings ==
    {s \in UNION {[1..n -> Signed(FieldNames)] : n \in 1..3} :
        \A i, j \in 1..Len(s) : i # j => LStripDash(s[i]) # LStripDash(s[j])}

\* the `ordering` attribute as declared on the pagination class
DeclaredOrderings ==
    {[kind |-> "str", value |-> o] : o \in Signed({ID, FIELD})}
    \cup {[kind |-> "tuple", value |-> s] : s \in {d \in DistinctOrderings : Len(d) <= 2}}

\* the orderings of the requests: one column, one descending column, a mixed pair
RequestOrderings ==
    {[kind |-> "str", value |-> ID],
     [kind |-> "tuple", value |-> <<<<"-">> \o FIELD>>],
     [kind |-> "tuple", value |-> <<FIELD, <<"-">> \o ID>>]}

Resolved == get_ordering(ordering).val

\* the table in canonical order
Canonical == order_by(data, Resolved)

NewInstance ==
    /\ cursor = None
    /\ page = <<>>
    /\ has_next = Unset
    /\ has_previous = Unset
    /\ next_position = Unset
    /\ previous_position = Unset
    /\ outcome = "new"

NoHistory ==
    /\ walk = "start"
    /\ seen = <<>>
    /\ before = <<>>
    /\ stable = data
    /\ writes = 0

NoScratch ==
    /\ token = None
    /\ decoded = Ok(None)
    /\ selected = {}
    /\ configured_cutoff = offset_cutoff
    /\ resolution = Unset

(***************************************************************************)
(* SpecWalk: a client walks forward from the first page over a static      *)
(* table, following each next link, and may step back once.                *)
(***************************************************************************)
InitWalk ==
    /\ data \in Tables
    /\ use_tuple_comparison \in BOOLEAN
    /\ page_size \in 1..MaxPageSize
    /\ ordering \in DeclaredOrderings
    /\ NewInstance /\ NoHistory /\ NoScratch

Start ==
    /\ walk = "start"
    /\ Serve(None)
    /\ seen' = page'
    /\ before' = <<>>
    /\ walk' = IF outcome' = "page" /\ has_next' = Some(TRUE) THEN "forward" ELSE "done"
    /\ UNCHANGED <<config, stable, writes, scratch>>

FollowNext ==
    /\ walk = "forward"
    /\ \E link \in {get_next_link(Self)} : link # None /\ Serve(link)
    /\ seen' = seen \o page'
    /\ before' = page
    /\ walk' = IF outcome' = "page" /\ has_next' = Some(TRUE) THEN "forward" ELSE "done"
    /\ UNCHANGED <<config, stable, writes, scratch>>

FollowPrevious ==
    /\ walk \in {"forward", "done"}
    /\ before # <<>>
    /\ \E link \in {get_previous_link(Self)} : link # None /\ Serve(link)
    /\ walk' = "back"
    /\ UNCHANGED <<config, seen, before, stable, writes, scratch>>

NextWalk == Start \/ FollowNext \/ FollowPrevious

SpecWalk == InitWalk /\ [][NextWalk]_vars

Ids(rows) == [i \in 1..Len(rows) |-> rows[i][ID]]

IsPrefix(s, t) == Len(s) <= Len(t) /\ s = SubSeq(t, 1, Len(s))

\* the windowing scenario: rows with id 1..5, ordering ("id",), pages of two
Scenario ==
    /\ {r[ID] : r \in data} = 1..5
    /\ Resolved = <<ID>>
    /\ page_size = 2

\* C1: a forward walk over a static table, from no cursor along the next
\* links until has_next is false, returns the table in canonical order: every
\* page but the last is full and extends the rows seen so far, so the walk ends
\* after at most one request per row, and at its end the pages concatenate to
\* exactly the table (no row missing, none twice); in the scenario the pages
\* are [1,2], [3,4], [5].
C1_ForwardWalkReturnsTheTable ==
    walk \in {"forward", "done"} =>
        /\ outcome = "page"
        /\ IsPrefix(seen, Canonical)
        /\ walk = "forward" => Len(page) = page_size /\ Len(seen) < Len(Canonical)
        /\ walk = "done" => seen = Canonical /\ has_next = Some(FALSE)
        /\ Scenario =>
            /\ Len(seen) = 2 => Ids(page) = <<1, 2>>
            /\ Len(seen) = 4 => Ids(page) = <<3, 4>>
            /\ Len(seen) = 5 => Ids(page) = <<5>> /\ walk = "done"
            /\ Len(seen) \in {2, 4, 5}

\* a finished three-page walk over five rows with ties in `field`, ordered by
\* field descending and id ascending
C1_Witness ==
    /\ walk = "done"
    /\ Resolved = <<<<"-">> \o FIELD, ID>>
    /\ page_size = 2
    /\ Len(seen) = 5
    /\ Len(page) = 1
    /\ \E i \in 1..4 : seen[i][FIELD] = seen[i + 1][FIELD]
    /\ \E i \in 1..4 : seen[i][FIELD] # seen[i + 1][FIELD]

\* C5: stepping back from page k+1, with the previous link that came with it,
\* returns page k again, the same rows in canonical order; in the scenario
\* going back from [3,4] gives [1,2].
C5_StepBackReproducesThePage ==
    walk = "back" =>
        /\ outcome = "page"
        /\ page = before
        /\ Scenario /\ Len(seen) = 4 => Ids(page) = <<1, 2>>

C5_Witness ==
    /\ walk = "back"
    /\ Scenario
    /\ Len(seen) = 4
    /\ Ids(page) = <<1, 2>>
    /\ cursor # None /\ cursor[1].reverse

(***************************************************************************)
(* SpecLinks: a client walks forward over a static table, under the        *)
(* orderings of the requests, and reads the cursor of each next link.      *)
(***************************************************************************)
InitLinks ==
    /\ data \in Tables
    /\ use_tuple_comparison \in BOOLEAN
    /\ page_size \in 1..MaxPageSize
    /\ ordering \in RequestOrderings
    /\ NewInstance /\ NoHistory /\ NoScratch

NextLinks == Start \/ FollowNext

SpecLinks == InitLinks /\ [][NextLinks]_vars

\* the cursor a link carries
LinkCursor(link) == decode_cursor(link, offset_cutoff).val[1]

FilterRows == [FieldNames -> FieldValues]

FilterTables ==
    {t \in SUBSET FilterRows : Cardinality(t) = 2 /\ Cardinality({r[ID] : r \in t}) = 2}

\* orderings as get_ordering returns them: they name the primary key
ResolvedOrderings ==
    {s \in DistinctOrderings : \E i \in 1..Len(s) : LStripDash(s[i]) = pk_name}

PositionOf(vs) == json_dumps([i \in 1..Len(vs) |-> str(vs[i])])

InitFilter ==
    /\ data \in FilterTables
    /\ use_tuple_comparison \in BOOLEAN
    /\ page_size = 1
    /\ ordering \in {[kind |-> "tuple", value |-> s] : s \in ResolvedOrderings}
    /\ cursor \in {Some(Cursor(0, r, Some(PositionOf(vs)))) :
                      r \in BOOLEAN, vs \in [1..Len(ordering.value) -> FieldValues]}
    /\ page = <<>>
    /\ has_next = Unset /\ has_previous = Unset
    /\ next_position = Unset /\ previous_position = Unset
    /\ outcome = "new"
    /\ NoHistory /\ NoScratch

ApplyFilter ==
    /\ outcome = "new"
    /\ \E f \in {BoundaryFilter(data, ordering.value, use_tuple_comparison,
                                cursor[1].reverse, cursor[1].position[1])} :
          /\ selected' = IF f.ok THEN f.val ELSE {}
          /\ outcome' = IF f.ok THEN "filtered" ELSE f.val
    /\ UNCHANGED <<config, page_size, ordering, cursor, page, has_next, has_previous,
                   next_position, previous_position, history, token, decoded,
                   settings>>

SpecFilter == InitFilter /\ [][ApplyFilter]_vars

\* the values of the cursor position in the state
PositionValues ==
    CHOOSE vs \in [1..Len(ordering.value) -> FieldValues] :
        cursor[1].position = Some(PositionOf(vs))

\* the lexicographic formula: equal on the fields before i, beyond on field i
StrictlyBeyond(row, ord, vs, reverse) ==
    \E i \in 1..Len(ord) :
        /\ \A j \in 1..(i - 1) : row[LStripDash(ord[j])] = vs[j]
        /\ IF StartsWithDash(ord[i]) = reverse
           THEN row[LStripDash(ord[i])] > vs[i]
           ELSE row[LStripDash(ord[i])] < vs[i]

\* C3: the filter built by the disjunctive loop keeps exactly the rows
\* strictly beyond the position in scan order, for every ordering, position
\* and traversal direction; for ("-field", "id"), position (v1, v2) and forward
\* traversal that is (field < v1) OR (field = v1 AND id > v2).
C3_DisjunctiveFilterIsLexicographic ==
    outcome = "filtered"
    /\ ~should_use_tuple_comparison(use_tuple_comparison, ordering.value) =>
        /\ selected = {row \in data :
                StrictlyBeyond(row, ordering.value, PositionValues, cursor[1].reverse)}
        /\ ordering.value = <<<<"-">> \o FIELD, ID>> /\ ~cursor[1].reverse =>
                selected = {row \in data :
                    \/ row[FIELD] < PositionValues[1]
                    \/ row[FIELD] = PositionValues[1] /\ row[ID] > PositionValues[2]}

\* three fields of mixed direction, reverse traversal, a row kept by its third
\* field alone and another row dropped
C3_Witness ==
    /\ outcome = "filtered"
    /\ ~use_tuple_comparison
    /\ Len(ordering.value) = 3
    /\ ~_uniform_ordering(ordering.value)
    /\ cursor[1].reverse
    /\ selected # data
    /\ \E row \in selected :
          /\ row[LStripDash(ordering.value[1])] = PositionValues[1]
          /\ row[LStripDash(ordering.value[2])] = PositionValues[2]

CodecPositions ==
    {None, Some(<<>>), Some(PositionOf(<<5>>)),
     Some(<<"[", "\"", "a", "\"", ",", " ", "\"", "b", "\"", "]">>),
     Some(<<"a", "&", "b", "=", "c">>), Some(<<"1", "0", "0", "%">>),
     Some(<<"+", " ", "/", "?">>), Some(<<"%", "4", "1", "~">>)}

CodecOffsets == (0..MaxOffset) \cup {offset_cutoff - 1, offset_cutoff}

InitCodec ==
    /\ data = {}
    /\ use_tuple_comparison = FALSE
    /\ page_size = 1
    /\ ordering = [kind |-> "str", value |-> ID]
    /\ cursor \in {Some(Cursor(o, r, p)) :
                      o \in CodecOffsets, r \in BOOLEAN, p \in CodecPositions}
    /\ page = <<>>
    /\ has_next = Unset /\ has_previous = Unset
    /\ next_position = Unset /\ previous_position = Unset
    /\ outcome = "new"
    /\ NoHistory /\ NoScratch

Encode ==
    /\ outcome = "new"
    /\ token' = Some(encode_cursor(cursor[1]))
    /\ outcome' = "encoded"
    /\ UNCHANGED <<config, page_size, ordering, cursor, page, has_next, has_previous,
                   next_position, previous_position, history, decoded, selected,
                   settings>>

Decode ==
    /\ outcome = "encoded"
    /\ decoded' = decode_cursor(token, offset_cutoff)
    /\ outcome' = "decoded"
    /\ UNCHANGED <<config, page_size, ordering, cursor, page, has_next, has_previous,
                   next_position, previous_position, history, token, selected,
                   settings>>

NextCodec == Encode \/ Decode

SpecCodec == InitCodec /\ [][NextCodec]_vars

\* C6: decoding the token encode_cursor made of a valid cursor (offset from 0
\* to offset_cutoff, any reverse flag, position None or any string) returns a
\* cursor equal to it in offset, reverse and position; the all-default cursor
\* travels as an empty token.
C6_DecodeInvertsEncode ==
    outcome = "decoded" =>
        /\ decoded = Ok(cursor)
        /\ cursor = Some(Cursor(0, FALSE, None)) => token = Some(<<>>)

\* a reverse cursor at the cutoff whose position holds the characters the
\* query string reserves
C6_Witness ==
    /\ outcome = "decoded"
    /\ cursor[1].offset = offset_cutoff
    /\ cursor[1].reverse
    /\ cursor[1].position = Some(<<"a", "&", "b", "=", "c">>)
    /\ decoded = Ok(cursor)

(***************************************************************************)
(* Spec: a client sends any cursor it likes to a new paginator, and then   *)
(* follows the links of the responses.                                     *)
(***************************************************************************)
RequestRows == 3

\* the empty table and every table of RequestRows rows
RequestTables ==
    {TableOf(fs) : fs \in [1..0 -> FieldValues] \cup [1..RequestRows -> FieldValues]}

\* positions a client may send: well-formed for one or two fields, and
\* malformed ones (wrong count, a JSON string, a JSON number, no JSON)
ClientPositions ==
    {None, Some(PositionOf(<<2>>)), Some(PositionOf(<<9, 2>>)),
     Some(PositionOf(<<10, 2>>)), Some(PositionOf(<<9, 2, 1>>)), Some(PositionOf(<<>>)),
     Some(<<"\"", "2", "\"">>), Some(<<"5">>), Some(<<"x">>)}

\* the cursor parameter of a request: absent, an encoded cursor, or a text
\* that is no base64
Requests ==
    {None, Some(<<"A">>)}
    \cup {Some(encode_cursor(Cursor(o, r, p))) :
            o \in 0..MaxOffset, r \in BOOLEAN, p \in ClientPositions}

Init ==
    /\ data \in RequestTables
    /\ use_tuple_comparison \in BOOLEAN
    /\ page_size \in 0..MaxPageSize
    /\ ordering \in RequestOrderings
    /\ NewInstance /\ NoHistory /\ NoScratch

Request(request) ==
    /\ outcome = "new"
    /\ Serve(request)
    /\ token' = request
    /\ UNCHANGED <<config, history, decoded, selected, settings>>

NextPage ==
    /\ \E link \in {get_next_link(Self)} :
          link # None /\ Serve(link) /\ token' = link
    /\ UNCHANGED <<config, history, decoded, selected, settings>>

PreviousPage ==
    /\ \E link \in {get_previous_link(Self)} :
          link # None /\ Serve(link) /\ token' = link
    /\ UNCHANGED <<config, history, decoded, selected, settings>>

Next == (\E request \in Requests : Request(request)) \/ NextPage \/ PreviousPage

Spec == Init /\ [][Next]_vars

\* the cursor of the request just served
Offset == IF cursor = None THEN 0 ELSE cursor[1].offset
Reverse == IF cursor = None THEN FALSE ELSE cursor[1].reverse
CurrentPosition == IF cursor = None THEN None ELSE cursor[1].position

ValuesOf(row) == [i \in 1..Len(Resolved) |-> row[LStripDash(Resolved[i])]]

\* the integers the boundary filter compares with: the leading items of the
\* position
PositionInts ==
    LET loaded == json_loads(CurrentPosition[1])
        items == IF loaded.kind = "str"
                 THEN [i \in 1..Len(loaded.items[1]) |-> <<loaded.items[1][i]>>]
                 ELSE loaded.items
    IN  [i \in 1..Len(Resolved) |-> int(items[i]).val]

\* the rows on the travel side of the cursor position
Matching ==
    IF CurrentPosition = None THEN data
    ELSE {row \in data : StrictlyBeyond(row, Resolved, PositionInts, Reverse)}

\* the row that Offset + page_size matching rows precede in scan order
ExtraRow ==
    CHOOSE r \in Matching :
        Cardinality({x \in Matching : StrictlyBeyond(r, Resolved, ValuesOf(x), Reverse)})
            = Offset + page_size

\* C8: the flag in the direction of travel (has_next forward, has_previous in
\* reverse) is true exactly when more than offset + page_size rows match, that
\* is when the scan of page_size + 1 rows from offset found a row beyond the
\* page; the position reported for that direction is then the JSON list of
\* the string-coerced ordering-field values of that extra row.
C8_TravelFlagIsTheOverfetchedRow ==
    outcome = "page" =>
        LET more == Cardinality(Matching) > Offset + page_size
            flag == IF Reverse THEN has_previous ELSE has_next
            position == IF Reverse THEN previous_position ELSE next_position
        IN  /\ flag = Some(more)
            /\ more => position = Some(Some(PositionOf(ValuesOf(ExtraRow))))
            /\ cursor = None /\ Resolved = <<ID>> /\ page_size = 2
               /\ {r[ID] : r \in data} = 1..3 =>
                   next_position = Some(Some(<<"[", "\"", "3", "\"", "]">>))

\* a reverse request with an offset over a two-field ordering that leaves a
\* row before the page
C8_Witness ==
    /\ outcome = "page"
    /\ Reverse
    /\ Offset = 1
    /\ CurrentPosition # None
    /\ Len(Resolved) = 2
    /\ has_previous = Some(TRUE)
    /\ Len(page) = page_size

\* C9: the flag against the direction of travel (has_previous forward,
\* has_next in reverse) is true exactly when the cursor carries a position or
\* a nonzero offset, and the position reported for that direction is then the
\* cursor's own; a request without cursor reports it false, and an offset
\* beyond the result set gives an empty page with the flag still true.
C9_OppositeFlagIsTheCursor ==
    outcome = "page" =>
        LET came_from == CurrentPosition # None \/ Offset > 0
            flag == IF Reverse THEN has_next ELSE has_previous
            position == IF Reverse THEN next_position ELSE previous_position
        IN  /\ flag = Some(came_from)
            /\ came_from => position = Some(CurrentPosition)
            /\ token = None => flag = Some(FALSE)
            /\ Offset >= Cardinality(Matching) /\ Offset > 0 =>
                   page = <<>> /\ flag = Some(TRUE)

\* a forward request whose offset jumps over the two rows that match
C9_Witness ==
    /\ outcome = "page"
    /\ ~Reverse
    /\ Offset = 2
    /\ CurrentPosition # None
    /\ Cardinality(Matching) = 2
    /\ page = <<>>
    /\ has_previous = Some(TRUE)
    /\ previous_position = Some(CurrentPosition)

\* the last request carried a position that is no JSON list, or a list whose
\* length is not that of the resolved ordering
MalformedPosition ==
    /\ token # None
    /\ LET d == decode_cursor(token, offset_cutoff)
       IN  /\ d.ok
           /\ d.val[1].position # None
           /\ LET loaded == json_loads(d.val[1].position[1])
              IN  loaded.kind # "list" \/ Len(loaded.items) # Len(Resolved)

\* C10: a page request whose cursor position is malformed fails with
\* InvalidCursor (NotFound): it raises no other error and returns no page.
C10_MalformedPositionIsInvalidCursor ==
    outcome # "new" /\ page_size > 0 /\ MalformedPosition => outcome = "NotFound"

(***************************************************************************)
(* SpecWrites: the forward walk while other clients insert and delete rows *)
(* between its requests.                                                   *)
(***************************************************************************)
WriteRows == 3
MaxWrites == 2

InitWrites ==
    /\ data \in {TableOf(fs) : fs \in [1..WriteRows -> FieldValues]}
    /\ use_tuple_comparison \in BOOLEAN
    /\ page_size \in 1..MaxPageSize
    /\ ordering \in RequestOrderings
    /\ NewInstance /\ NoHistory /\ NoScratch

Insert(row) ==
    /\ walk \in {"start", "forward"}
    /\ writes < MaxWrites
    /\ row[ID] \notin {r[ID] : r \in data}
    /\ data' = data \cup {row}
    /\ writes' = writes + 1
    /\ UNCHANGED <<use_tuple_comparison, instance, walk, seen, before, stable, scratch>>

Delete(row) ==
    /\ walk \in {"start", "forward"}
    /\ writes < MaxWrites
    /\ row \in data
    /\ data' = data \ {row}
    /\ stable' = stable \ {row}
    /\ writes' = writes + 1
    /\ UNCHANGED <<use_tuple_comparison, instance, walk, seen, before, scratch>>

NextWrites ==
    \/ Start
    \/ FollowNext
    \/ \E id \in 1..(WriteRows + 1), f \in FieldValues : Insert(Row(id, f))
    \/ \E row \in data : Delete(row)

SpecWrites == InitWrites /\ [][NextWrites]_vars

Occurrences(row, rows) == Cardinality({i \in 1..Len(rows) : rows[i] = row})

\* C2: while rows are inserted and deleted between the requests of a forward
\* walk, a row that stays in the table untouched is never returned twice, and
\* when the walk ends it has been returned exactly once.
C2_StableRowsAreReturnedOnce ==
    /\ \A row \in stable : Occurrences(row, seen) <= 1
    /\ walk = "done" => \A row \in stable : Occurrences(row, seen) = 1

\* a finished walk of at least two requests with an insert and a delete
\* between them, which returned an inserted row and kept a stable one
C2_Witness ==
    /\ walk = "done"
    /\ writes = 2
    /\ Cardinality(stable) = 2
    /\ cursor # None
    /\ \E i \in 1..Len(seen) : seen[i] \notin stable /\ seen[i] \in data

(***************************************************************************)
(* SpecOrdering: get_ordering resolves the ordering a pagination class     *)
(* declares.                                                               *)
(***************************************************************************)
MaxFields == 2

NAME == <<"n", "a", "m", "e">>

\* a specifier that traverses a relation: a double-underscore lookup
LOOKUP == <<"u", "_", "_", "n">>

Specifiers == Signed({ID, PK, FIELD, NAME, LOOKUP}) \cup {<<"_", "_">>}

\* the `ordering` attribute: absent, one string, or a list or tuple of strings
OrderingInputs ==
    {[kind |-> "None", value |-> <<>>]}
    \cup {[kind |-> "str", value |-> s] : s \in Specifiers}
    \cup {[kind |-> k, value |-> t] :
            k \in {"list", "tuple"},
            t \in UNION {[1..n -> Specifiers] : n \in 0..MaxFields}}

InitOrdering ==
    /\ data = {}
    /\ use_tuple_comparison = FALSE
    /\ page_size = 1
    /\ ordering \in OrderingInputs
    /\ NewInstance /\ NoHistory /\ NoScratch

ResolveOrdering ==
    /\ outcome = "new"
    /\ resolution' = get_ordering(ordering)
    /\ outcome' = "resolved"
    /\ UNCHANGED <<config, page_size, ordering, cursor, page, has_next, has_previous,
                   next_position, previous_position, history, token, decoded, selected,
                   configured_cutoff>>

SpecOrdering == InitOrdering /\ [][ResolveOrdering]_vars

\* the declared ordering as a tuple of specifiers
CallerOrdering == IF ordering.kind = "str" THEN <<ordering.value>> ELSE ordering.value

\* the declared ordering holds a specifier with a double-underscore lookup
HasLookup ==
    \E i \in 1..Len(CallerOrdering) : Contains(CallerOrdering[i], <<"_", "_">>)

\* the field a specifier names: no direction, the pk alias as the key itself
FieldOf(x) == IF LStripDash(x) = PK THEN pk_name ELSE LStripDash(x)

\* C11: whenever a declared ordering, a single string or a list or tuple,
\* holds a specifier with a double-underscore lookup, get_ordering fails with
\* the unsupported-ordering assertion and returns no ordering.
C11_LookupOrderingIsRejected ==
    outcome = "resolved" /\ ordering.kind # "None" /\ HasLookup =>
        resolution = Raise("AssertionError")

\* C12: the resolved ordering is the caller's ordering unchanged when that
\* names the unique key (ascending or descending, by its name or as pk), and
\* otherwise the caller's ordering followed by the key ascending; so it always
\* names the key, and resolving the resolved tuple again returns the same
\* tuple; ["name"] gives ("name", "id") and ["id"] gives ("id",).
C12_KeyAppendedUnlessNamed ==
    outcome = "resolved" /\ resolution.ok =>
        LET names_key == \E i \in 1..Len(CallerOrdering) :
                            FieldOf(CallerOrdering[i]) = pk_name
        IN  /\ names_key => resolution.val = CallerOrdering
            /\ ~names_key => resolution.val = CallerOrdering \o <<pk_name>>
            /\ \E i \in 1..Len(resolution.val) : FieldOf(resolution.val[i]) = pk_name
            /\ get_ordering([kind |-> "tuple", value |-> resolution.val]) = resolution
            /\ ordering = [kind |-> "list", value |-> <<NAME>>] =>
                   resolution.val = <<NAME, ID>>
            /\ ordering = [kind |-> "list", value |-> <<ID>>] => resolution.val = <<ID>>

\* ["-field", "-id"] resolved unchanged: the key is named, descending
C12_Witness ==
    /\ outcome = "resolved"
    /\ ordering = [kind |-> "list", value |-> <<<<"-">> \o FIELD, <<"-">> \o ID>>]
    /\ resolution = Ok(<<<<"-">> \o FIELD, <<"-">> \o ID>>)

\* C18: a resolved ordering names no field twice, counting a field the same
\* ascending or descending and the key the same as id or as pk.
C18_ResolvedOrderingHasNoFieldTwice ==
    outcome = "resolved" /\ resolution.ok =>
        \A i, j \in 1..Len(resolution.val) :
            i # j => FieldOf(resolution.val[i]) # FieldOf(resolution.val[j])

(***************************************************************************)
(* SpecDecode: decode_cursor reads the cursor parameter a client sent,     *)
(* under the offset_cutoff the pagination class sets.                      *)
(***************************************************************************)
MaxCutoff == 2

\* offset_cutoff as configured: small ones, none (0) and the default
Cutoffs == (0..MaxCutoff) \cup {offset_cutoff}

\* the offsets a token may carry: around the small cutoffs and the default
OffsetNumbers == (0..(MaxCutoff + 1)) \cup {offset_cutoff, offset_cutoff + 1}

\* the value of `o`: absent, an integer, or no non-negative integer
OffsetTexts ==
    {None, Some(<<"a", "b", "c">>), Some(<<"-", "1">>), Some(<<>>)}
    \cup {Some(str(n)) : n \in OffsetNumbers}

\* the value of `r`: absent, 0 or 1, another integer, or no integer
ReverseTexts ==
    {None, Some(<<"0">>), Some(<<"1">>), Some(<<"2">>), Some(<<"-", "1">>),
     Some(<<"x">>), Some(<<>>)}

QueryInputs == {[o |-> o, r |-> r] : o \in OffsetTexts, r \in ReverseTexts}

\* the query string of a token and the cursor parameter that carries it
QueryString(q) ==
    (IF q.o # None THEN <<"o", "=">> \o q.o[1] ELSE <<>>)
    \o (IF q.o # None /\ q.r # None THEN <<"&">> ELSE <<>>)
    \o (IF q.r # None THEN <<"r", "=">> \o q.r[1] ELSE <<>>)

RequestOf(q) == Some(quote_plus(b64encode(QueryString(q))))

\* cursor parameters that are no base64 of an ASCII text: data that ends
\* inside a quad, characters outside the alphabet (alone, and after the
\* base64 of "r=1"), a character outside ASCII, and the base64 of byte 255
MalformedTokens ==
    {Some(<<"A">>), Some(<<"!", "!", "!", "!">>), Some(<<"c", "j", "0", "x", "!">>),
     Some(<<NonAscii>>), Some(<<"/", "w", "=", "=">>)}

InitDecode ==
    /\ data = {}
    /\ use_tuple_comparison = FALSE
    /\ page_size = 1
    /\ ordering = [kind |-> "str", value |-> ID]
    /\ NewInstance /\ NoHistory
    /\ token \in {RequestOf(q) : q \in QueryInputs} \cup MalformedTokens
    /\ decoded = Ok(None)
    /\ selected = {}
    /\ configured_cutoff \in Cutoffs
    /\ resolution = Unset

DecodeRequest ==
    /\ outcome = "new"
    /\ decoded' = decode_cursor(token, configured_cutoff)
    /\ outcome' = "decoded"
    /\ UNCHANGED <<config, page_size, ordering, cursor, page, has_next, has_previous,
                   next_position, previous_position, history, token, selected, settings>>

SpecDecode == InitDecode /\ [][DecodeRequest]_vars

\* the o and r values the token of the state was made of
TokenInputs == {q \in QueryInputs : RequestOf(q) = token}

\* the integer an `o` text denotes
OffsetNumber(o) == CHOOSE n \in OffsetNumbers : o = Some(str(n))

IsOffsetNumber(o) == \E n \in OffsetNumbers : o = Some(str(n))

\* C13: a token whose r value is anything but 0 or 1 is rejected with
\* NotFound, and a decoded cursor is reversed only for r = 1 and not reversed
\* only for r = 0 or no r.
C13_ReverseFlagIsZeroOrOne ==
    outcome = "decoded" =>
        \A q \in TokenInputs :
            /\ q.r \notin {None, Some(<<"0">>), Some(<<"1">>)} =>
                   decoded = Raise("NotFound")
            /\ decoded.ok =>
                   /\ decoded.val[1].reverse => q.r = Some(<<"1">>)
                   /\ ~decoded.val[1].reverse => q.r \in {None, Some(<<"0">>)}

\* C14: under every configured offset_cutoff, a token whose o is an integer
\* above the cutoff (r absent, 0 or 1) decodes, to a cursor whose offset is
\* the cutoff; no decoded cursor has an offset above the cutoff.
C14_OffsetIsClampedToTheCutoff ==
    outcome = "decoded" =>
        /\ \A q \in TokenInputs :
               /\ IsOffsetNumber(q.o)
               /\ OffsetNumber(q.o) > configured_cutoff
               /\ q.r \in {None, Some(<<"0">>), Some(<<"1">>)}
               => decoded = Ok(Some(Cursor(configured_cutoff, q.r = Some(<<"1">>), None)))
        /\ decoded.ok /\ decoded.val # None =>
               decoded.val[1].offset <= configured_cutoff

\* C15: a token that is no base64 of an ASCII text, or whose o value is no
\* non-negative integer, is rejected with NotFound and gives no cursor;
\* decode_cursor raises nothing but NotFound.
C15_MalformedTokenIsNotFound ==
    outcome = "decoded" =>
        /\ token \in MalformedTokens => decoded = Raise("NotFound")
        /\ \A q \in TokenInputs :
               q.o # None /\ ~IsOffsetNumber(q.o) => decoded = Raise("NotFound")
        /\ decoded.ok \/ decoded = Raise("NotFound")

(***************************************************************************)
(* Requests served one after another by the same paginator (Spec).         *)
(***************************************************************************)
\* C16: the page a paginator answers a request with (rows, has_next,
\* has_previous, next_position, previous_position) is the page a paginator
\* that has served nothing answers the same request with, whatever requests
\* the paginator served before.
C16_PageDependsOnTheRequestAlone ==
    outcome = "page" =>
        LET unused == [Self EXCEPT !.cursor = None, !.page = <<>>,
                                   !.has_next = Unset, !.has_previous = Unset,
                                   !.next_position = Unset,
                                   !.previous_position = Unset,
                                   !.outcome = "new"]
            alone == paginate_queryset(unused, data, use_tuple_comparison, token)
        IN  /\ alone.outcome = "page"
            /\ page = alone.page
            /\ has_next = alone.has_next
            /\ has_previous = alone.has_previous
            /\ next_position = alone.next_position
            /\ previous_position = alone.previous_position

\* the scan of the last request found no row: no more rows lie on the travel
\* side of the cursor position than the offset skips
EmptyResults == Cardinality(Matching) <= Offset

C19_PageIsACanonicalRunBeyondTheCursor ==
    outcome = "page" =>
        /\ page_size >= 1
        /\ Len(page) <= page_size
        /\ \E k \in 0..(Len(Canonical) - Len(page)) :
               \A i \in 1..Len(page) : page[i] = Canonical[k + i]
        /\ CurrentPosition # None =>
               \A i \in 1..Len(page) :
                   StrictlyBeyond(page[i], Resolved, PositionInts, Reverse)

\* a reverse request with a position and an offset over a two-field ordering,
\* answered with a full page of two rows
C19_Witness ==
    /\ outcome = "page"
    /\ Reverse
    /\ CurrentPosition # None
    /\ Offset = 1
    /\ Len(Resolved) = 2
    /\ page_size = 2
    /\ Len(page) = 2
    /\ page[1] # page[2]

(***************************************************************************)
(* The comparisons of the disjunctive filter (SpecFilter).                 *)
(***************************************************************************)
\* the comparison the disjunctive loop builds for the i-th ordering field of
\* the request: "gt" or "lt"
CMP(i) ==
    q_objects_compare(ordering.value, json_loads(cursor[1].position[1]).items,
                      cursor[1].reverse)[ordering.value[i]].op

\* C20 as stated: the comparison on field i is > exactly when (field i is
\* ascending) XOR (the traversal is reversed) is false, and < otherwise.
C20_GreaterWhenAscendingXorReversedIsFalse ==
    outcome = "filtered"
    /\ ~should_use_tuple_comparison(use_tuple_comparison, ordering.value) =>
        \A i \in 1..Len(ordering.value) :
            CMP(i) = IF (~StartsWithDash(ordering.value[i])) = cursor[1].reverse
                     THEN "gt" ELSE "lt"

\* C20: the comparison on field i is > exactly when (field i is descending)
\* XOR (the traversal is reversed) is false, that is for an ascending field
\* travelled forward and a descending field travelled in reverse, and <
\* otherwise; a row equal to the position on the fields before i is selected
\* exactly when its field i compares so with the position.
C20_GreaterWhenDescendingXorReversedIsFalse ==
    outcome = "filtered"
    /\ ~should_use_tuple_comparison(use_tuple_comparison, ordering.value) =>
        \A i \in 1..Len(ordering.value) :
            /\ CMP(i) = IF StartsWithDash(ordering.value[i]) = cursor[1].reverse
                        THEN "gt" ELSE "lt"
            /\ ~StartsWithDash(ordering.value[i]) /\ ~cursor[1].reverse => CMP(i) = "gt"
            /\ \A row \in data :
                   /\ \A j \in 1..(i - 1) :
                          row[LStripDash(ordering.value[j])] = PositionValues[j]
                   /\ row[LStripDash(ordering.value[i])] # PositionValues[i]
                   => (row \in selected <=>
                          IF CMP(i) = "gt"
                          THEN row[LStripDash(ordering.value[i])] > PositionValues[i]
                          ELSE row[LStripDash(ordering.value[i])] < PositionValues[i])

\* a reverse traversal of a mixed ordering: < on its ascending first field,
\* > on its descending second field
C20_Witness ==
    /\ outcome = "filtered"
    /\ ~use_tuple_comparison
    /\ cursor[1].reverse
    /\ Len(ordering.value) >= 2
    /\ ~StartsWithDash(ordering.value[1])
    /\ StartsWithDash(ordering.value[2])
    /\ CMP(1) = "lt"
    /\ CMP(2) = "gt"
    /\ selected # {} /\ selected # data
====
